---- MODULE Spec2Model ----
(***************************************************************************)
(* Model of packages/hooks-cli/hooks_builder/hooks_builder.ts:             *)
(*   - setHook / getTransactionFee / submitAndWaitWithRetries (deployment) *)
(*   - buildHook (the external tool-chain pipeline)                        *)
(* Every await of the source is a suspension point; the code between two   *)
(* awaits is one atomic action.  The network client and the external build *)
(* tools are the environment: their outcomes are chosen with \E.           *)
(***************************************************************************)
EXTENDS Integers, Sequences, FiniteSets, TLC

\* ------------------------------------------------------------------------
\* Bounds of the model (not program constants)
\* ------------------------------------------------------------------------
\* account sequence numbers the network client may autofill: 1..MaxSequence
MaxSequence == 2
\* distinct responses the network may give to submitAndWait: 1..NumResults
NumResults == 2

\* largest number passed as version or flags to createHookPayload
MaxNumber == 2

\* longest parameter name handed to hexHookParameters
MaxNameLen == 2

\* most parameters handed to hexHookParameters
MaxParams == 2

\* ------------------------------------------------------------------------
\* Generic helpers
\* ------------------------------------------------------------------------
\* obj[k] = v on a JavaScript object: add or overwrite one field
SetField(obj, k, v) == (k :> v) @@ obj

Has(obj, k) == k \in DOMAIN obj

Last(s) == s[Len(s)]

\* the indices of the events of trace tr whose op is o
IdxOf(tr, o) == {i \in 1..Len(tr) : tr[i].op = o}

\* ------------------------------------------------------------------------
\* JavaScript values of optional arguments
\* ------------------------------------------------------------------------
JsUndefined == [tag |-> "undefined"]

JsNull == [tag |-> "null"]

JsNum(n) == [tag |-> "number", val |-> n]

\* a string is the sequence of its characters (or pieces); "" is <<>>
JsStr(s) == [tag |-> "string", val |-> s]

JsArr(a) == [tag |-> "array", val |-> a]

\* if (x): 0, "", null and undefined are falsy; an array is truthy
Truthy(x) ==
    CASE x.tag = "number" -> x.val # 0
      [] x.tag = "string" -> x.val # <<>>
      [] x.tag = "array" -> TRUE
      [] OTHER -> FALSE

\* ------------------------------------------------------------------------
\* Hex (misc/mod.ts)
\* ------------------------------------------------------------------------
HexLower ==
    <<"0", "1", "2", "3", "4", "5", "6", "7", "8", "9",
      "a", "b", "c", "d", "e", "f">>

HexUpper ==
    <<"0", "1", "2", "3", "4", "5", "6", "7", "8", "9",
      "A", "B", "C", "D", "E", "F">>

\* character codes of the characters strings are made of in this model
CharCode ==
    [c \in {HexLower[i] : i \in 1..16} \cup {HexUpper[i] : i \in 1..16}
            \cup {"g", "k", "-", "\n"} |->
        IF \E i \in 1..10 : c = HexLower[i]
        THEN 47 + (CHOOSE i \in 1..10 : c = HexLower[i])
        ELSE IF \E i \in 11..16 : c = HexLower[i]
        THEN 86 + (CHOOSE i \in 11..16 : c = HexLower[i])
        ELSE IF \E i \in 11..16 : c = HexUpper[i]
        THEN 54 + (CHOOSE i \in 11..16 : c = HexUpper[i])
        ELSE CASE c = "g" -> 103 [] c = "k" -> 107 [] c = "-" -> 45
               [] c = "\n" -> 10]

Chars == DOMAIN CharCode

IsHexDigit(c) == \E i \in 1..16 : c = HexLower[i] \/ c = HexUpper[i]

\* Hex.isHex: a non-empty string of hex digits
IsHex(str) == Len(str) > 0 /\ \A i \in 1..Len(str) : IsHexDigit(str[i])

\* two lower-case hex digits of a value 0..255
ByteToHex(b) == <<HexLower[(b \div 16) + 1], HexLower[(b % 16) + 1]>>

RECURSIVE uint8ArrayToHexString(_)
\* Hex.uint8ArrayToHexString: two hex digits per byte
uint8ArrayToHexString(bytes) ==
    IF bytes = <<>> THEN <<>>
    ELSE ByteToHex(bytes[1]) \o uint8ArrayToHexString(Tail(bytes))

RECURSIVE stringToHexString(_)
\* Hex.stringToHexString: two hex digits per character code
stringToHexString(str) ==
    IF str = <<>> THEN <<>>
    ELSE ByteToHex(CharCode[str[1]]) \o stringToHexString(Tail(str))

UpperChar(c) ==
    IF \E i \in 11..16 : c = HexLower[i]
    THEN HexUpper[CHOOSE i \in 11..16 : c = HexLower[i]]
    ELSE IF c = "g" THEN "G" ELSE IF c = "k" THEN "K" ELSE c

\* String.prototype.toUpperCase
toUpperCase(str) == [i \in 1..Len(str) |-> UpperChar(str[i])]

\* ------------------------------------------------------------------------
\* Payload construction
\* ------------------------------------------------------------------------
\* new Sha256().update(seed).hex().toUpperCase(): the digest is opaque
hexNamespace(hookNamespaceSeed) ==
    [digest |-> "SHA256", of |-> hookNamespaceSeed, upper |-> TRUE]

\* both fields are converted whether or not they are hex already
HexParameterAlways(parameter) ==
    LET n == parameter.HookParameter.HookParameterName
        v == parameter.HookParameter.HookParameterValue
    IN  [HookParameter |->
           [HookParameterName |-> stringToHexString(n),
            HookParameterValue |-> stringToHexString(v)]]

\* one parameter with both fields normalised to hex
HexParameter(parameter) ==
    LET n == parameter.HookParameter.HookParameterName
        v == parameter.HookParameter.HookParameterValue
    IN  [HookParameter |->
           [HookParameterName |-> IF ~IsHex(n) THEN stringToHexString(n) ELSE n,
            HookParameterValue |-> IF ~IsHex(v) THEN stringToHexString(v) ELSE v]]

\* a parameter whose name occurred earlier in the sequence is dropped
hexHookParametersUnique(data) ==
    LET out == [i \in 1..Len(data) |-> HexParameter(data[i])]
        keep(i) == \A j \in 1..(i - 1) :
                       out[j].HookParameter.HookParameterName
                           # out[i].HookParameter.HookParameterName
        F[i \in 0..Len(data)] ==
            IF i = 0 THEN <<>>
            ELSE IF keep(i) THEN Append(F[i - 1], out[i]) ELSE F[i - 1]
    IN  F[Len(data)]

hexHookParameters(data) == [i \in 1..Len(data) |-> HexParameter(data[i])]

\* default value of the hookOn parameter
DefaultHookOn ==
    "0xffffffffffffffffffffffffffffffffffffffffffffffffffffffffffbfffff"

\* the version is tested for truthiness, as the flags are
createHookPayloadTruthy(version, namespace, flags, hookOn, hookParams, hookGrants) ==
    LET h0 == [hookOn |-> hookOn]
        h1 == IF Truthy(version)
              THEN SetField(h0, "HookApiVersion", version.val) ELSE h0
        h2 == IF Truthy(namespace)
              THEN SetField(h1, "HookNamespace", hexNamespace(namespace.val))
              ELSE h1
        h3 == IF Truthy(flags) THEN SetField(h2, "Flags", flags.val) ELSE h2
        h4 == IF Truthy(hookParams)
              THEN SetField(h3, "HookParameters",
                            hexHookParameters(hookParams.val))
              ELSE h3
        h5 == IF Truthy(hookGrants)
              THEN SetField(h4, "HookGrants", hookGrants.val) ELSE h4
    IN  h5

createHookPayload(version, namespace, flags, hookOn, hookParams, hookGrants) ==
    LET h0 == [hookOn |-> hookOn]
        h1 == IF version.tag = "number"
              THEN SetField(h0, "HookApiVersion", version.val) ELSE h0
        h2 == IF Truthy(namespace)
              THEN SetField(h1, "HookNamespace", hexNamespace(namespace.val))
              ELSE h1
        h3 == IF Truthy(flags) THEN SetField(h2, "Flags", flags.val) ELSE h2
        h4 == IF Truthy(hookParams)
              THEN SetField(h3, "HookParameters",
                            hexHookParameters(hookParams.val))
              ELSE h3
        h5 == IF Truthy(hookGrants)
              THEN SetField(h4, "HookGrants", hookGrants.val) ELSE h4
    IN  h5

\* the payload buildHook creates for a hook name
PayloadOf(hookName) ==
    createHookPayload(JsNum(0), JsStr(hookName \o <<"namespace">>),
                      JsUndefined, DefaultHookOn, JsUndefined, JsUndefined)

\* ------------------------------------------------------------------------
\* Calls of createHookPayload and hexHookParameters
\* ------------------------------------------------------------------------
\* strings of at most n characters over the alphabet A
RECURSIVE StringsUpTo(_, _)
StringsUpTo(A, n) ==
    IF n = 0 THEN {<<>>}
    ELSE LET shorter == StringsUpTo(A, n - 1)
         IN  shorter \cup {Append(w, c) : w \in shorter, c \in A}

\* parameter names: "a" is a hex digit, "g" is not
ParamNames == StringsUpTo({"a", "g"}, MaxNameLen)

\* parameter values: empty, hex, not hex (with a character code below 16)
ParamValues == {<<>>, <<"0", "F">>, <<"\n", "k">>}

HookParameters ==
    {[HookParameter |-> [HookParameterName |-> n, HookParameterValue |-> v]] :
        n \in ParamNames, v \in ParamValues}

\* the sequences of at most MaxParams parameters
ParamInputs == UNION {[1..k -> HookParameters] : k \in 0..MaxParams}

SampleParameter ==
    [HookParameter |-> [HookParameterName |-> <<"g">>,
                        HookParameterValue |-> <<"0", "F">>]]

\* the arguments of createHookPayload
PayloadInputs ==
    [version : {JsUndefined, JsNull} \cup {JsNum(n) : n \in 0..MaxNumber},
     namespace : {JsUndefined, JsNull, JsStr(<<>>), JsStr(<<"n", "s">>)},
     flags : {JsUndefined} \cup {JsNum(n) : n \in 0..MaxNumber},
     hookOn : {DefaultHookOn, "0x00"},
     hookParams : {JsUndefined, JsNull, JsArr(<<>>),
                   JsArr(<<SampleParameter>>)},
     hookGrants : {JsUndefined, JsArr(<<>>)}]

\* ------------------------------------------------------------------------
\* Inputs of setHook
\* ------------------------------------------------------------------------
Secrets == {"sSecretA", "sSecretB"}

\* xrpl.Wallet.fromSecret(secret): the signing identity derived from a secret
WalletFromSecret(s) ==
    [address |-> IF s = "sSecretA" THEN "rAccountA" ELSE "rAccountB",
     seed |-> s]

\* HookPayloads a caller may hand to setHook (built earlier by buildHook)
HookInputs ==
    {SetField(PayloadOf(<<"foo">>), "CreateCode", <<"0", "0", "6", "1">>),
     SetField(PayloadOf(<<"bar">>), "CreateCode", <<"F", "F">>)}

\* fee strings the fee-estimation query may answer
Fees == {"10", "12"}

\* responses of client.submitAndWait
Results == {[engine_result |-> "tesSUCCESS", id |-> n] : n \in 1..NumResults}

NoResult == [engine_result |-> "none", id |-> 0]

NoError == [kind |-> "none", tries |-> 0]

\* ------------------------------------------------------------------------
\* Network client collaborators
\* ------------------------------------------------------------------------
\* client.autofill: completes the fields the draft does not carry yet
Autofill(t, seq) ==
    LET withSeq == IF Has(t, "Sequence") THEN t ELSE SetField(t, "Sequence", seq)
        withFee == IF Has(withSeq, "Fee") THEN withSeq
                   ELSE SetField(withSeq, "Fee", "10")
    IN  withFee

\* canonical field order of the wire encoding
WireOrder ==
    <<"TransactionType", "Sequence", "Fee", "SigningPubKey", "Account", "Hooks">>

RECURSIVE EncodeFrom(_, _)
EncodeFrom(t, i) ==
    IF i > Len(WireOrder) THEN <<>>
    ELSE IF Has(t, WireOrder[i])
         THEN <<<<WireOrder[i], t[WireOrder[i]]>>>> \o EncodeFrom(t, i + 1)
         ELSE EncodeFrom(t, i + 1)

\* xrpl.encode: the fields present, serialised in canonical order
Encode(t) == EncodeFrom(t, 1)

\* ------------------------------------------------------------------------
\* State of one setHook call
\* ------------------------------------------------------------------------
VARIABLES
    pc,          \* position of the setHook call
    secret,      \* argument: signing secret
    hook,        \* argument: the HookPayload
    wallet,      \* xrpl.Wallet.fromSecret(secret)
    tx,          \* the SetHook transaction of setHook
    copyTx,      \* the clone getTransactionFee works on
    preparedTx,  \* the autofilled clone
    tx_blob,     \* its wire encoding
    fee,         \* the fee getTransactionFee returned
    faults,      \* the fee-estimation steps that failed
    tries,       \* loop counter of submitAndWaitWithRetries
    trace,       \* calls made to the client and to setTimeout, in order
    responses,   \* outcome of each completed submitAndWait call, in order
    result,      \* value setHook resolved with
    error        \* error setHook rejected with

VARIABLES
    bpc,         \* per build: the await buildHook is suspended at
    status,      \* per build and tool: idle, running, ok, failed, threw
    invoked,     \* per build and tool: how many times it was started
    logged,      \* per build: what was written to the console, in order
    convOrder,   \* per build: the conversions in their order of completion
    bhook,       \* per build: the HookPayload under construction
    wasm,        \* per build: the bytes Deno.readFile returned
    berror,      \* per build: what buildHook rejected with
    fs           \* the artifact files of the working directory

VARIABLES
    ppc,         \* position of a call of a pure function
    pin,         \* its argument(s)
    pout,        \* its result
    pout2        \* the result of applying it to its own result

pureVars == <<ppc, pin, pout, pout2>>

\* no call of a pure function
PureIdle ==
    /\ ppc = "idle"
    /\ pin = <<>>
    /\ pout = <<>>
    /\ pout2 = <<>>

buildVars == <<bpc, status, invoked, logged, convOrder, bhook, wasm, berror, fs>>

deployVars == <<pc, secret, hook, wallet, tx, copyTx, preparedTx, tx_blob,
                fee, faults, tries, trace, responses, result, error>>

PayloadInit ==
    /\ ppc = "call"
    /\ pin \in PayloadInputs
    /\ pout = <<>>
    /\ pout2 = <<>>

ParamsInit ==
    /\ ppc = "call"
    /\ pin \in ParamInputs
    /\ pout = <<>>
    /\ pout2 = <<>>

\* createHookPayload(version, namespace, flags, hookOn, hookParams, hookGrants)
CreateHookPayloadCall ==
    /\ ppc = "call"
    /\ pout' = createHookPayload(pin.version, pin.namespace, pin.flags,
                                 pin.hookOn, pin.hookParams, pin.hookGrants)
    /\ ppc' = "returned"
    /\ UNCHANGED <<deployVars, buildVars, pin, pout2>>

\* hexHookParameters(data)
HexHookParametersCall ==
    /\ ppc = "call"
    /\ pout' = hexHookParameters(pin)
    /\ ppc' = "returned"
    /\ UNCHANGED <<deployVars, buildVars, pin, pout2>>

\* hexHookParameters applied to what it returned
HexHookParametersAgain ==
    /\ ppc = "returned"
    /\ pout2' = hexHookParameters(pout)
    /\ ppc' = "again"
    /\ UNCHANGED <<deployVars, buildVars, pin, pout>>

NoTx == [TransactionType |-> "none"]

NoHook == [hookOn |-> "none"]

DeployFields ==
    /\ wallet = [address |-> "none", seed |-> "none"]
    /\ tx = NoTx
    /\ copyTx = NoTx
    /\ preparedTx = NoTx
    /\ tx_blob = <<>>
    /\ fee = "none"
    /\ faults = {}
    /\ tries = 0
    /\ trace = <<>>
    /\ responses = <<>>
    /\ result = NoResult
    /\ error = NoError

\* one setHook call, for any secret and payload
DeployInit ==
    /\ pc = "init"
    /\ secret \in Secrets
    /\ hook \in HookInputs
    /\ DeployFields

\* no setHook call
DeployIdle ==
    /\ pc = "idle"
    /\ secret = "sSecretA"
    /\ hook = NoHook
    /\ DeployFields

\* ------------------------------------------------------------------------
\* getTransactionFee
\* ------------------------------------------------------------------------
\* the fee and the signing key are set only when the transaction has none
DraftOfKeepsOwn(t) ==
    LET a == IF Has(t, "Fee") THEN t ELSE SetField(t, "Fee", "0")
    IN  IF Has(a, "SigningPubKey") THEN a ELSE SetField(a, "SigningPubKey", "")

\* JSON.parse(JSON.stringify(transaction)); Fee = "0"; SigningPubKey = ""
DraftOf(t) == SetField(SetField(t, "Fee", "0"), "SigningPubKey", "")

\* the options setHook passes to the submitter
SubmitOptions(w) == [wallet |-> w, failHard |-> TRUE, autofill |-> TRUE]

\* fixed delay of the retry loop, in milliseconds
BackoffMs == 1000

\* the loop bound taken one too far
WhileCondOffByOne(t) == t <= 3

\* while (tries < 3)
WhileCond(t) == t < 3

\* the terminal error naming the retries instead of the tries
LoopHeadMiscount(t, theTx, tr) ==
    IF WhileCond(t)
    THEN /\ pc' = "submit"
         /\ trace' = Append(tr, [op |-> "submitAndWait", tx |-> theTx,
                                 opts |-> SubmitOptions(wallet)])
         /\ error' = error
    ELSE /\ pc' = "rejected"
         /\ trace' = tr
         /\ error' = [kind |-> "terminal", tries |-> t - 1]

\* head of the loop of submitAndWaitWithRetries: another call of
\* client.submitAndWait(...params), or the terminal error after the loop
LoopHead(t, theTx, tr) ==
    IF WhileCond(t)
    THEN /\ pc' = "submit"
         /\ trace' = Append(tr, [op |-> "submitAndWait", tx |-> theTx,
                                 opts |-> SubmitOptions(wallet)])
         /\ error' = error
    ELSE /\ pc' = "rejected"
         /\ trace' = tr
         /\ error' = [kind |-> "terminal", tries |-> t]

\* setHook is called: wallet, tx, then getTransactionFee up to its first await
SetHookCall ==
    /\ pc = "init"
    /\ LET w == WalletFromSecret(secret)
           t == [TransactionType |-> "SetHook", Account |-> w.address,
                 Hooks |-> <<[Hook |-> hook]>>]
       IN  /\ wallet' = w
           /\ tx' = t
           /\ copyTx' = DraftOf(t)
           /\ trace' = Append(trace, [op |-> "autofill", tx |-> DraftOf(t)])
    /\ pc' = "autofill"
    /\ UNCHANGED <<buildVars, pureVars, fee, faults, secret, hook, preparedTx, tx_blob, tries, responses,
                   result, error>>

\* client.autofill resolves; encode succeeds; the fee query is sent
AutofillResolves ==
    /\ pc = "autofill"
    /\ \E seq \in 1..MaxSequence :
         LET p == Autofill(copyTx, seq)
         IN  /\ preparedTx' = p
             /\ tx_blob' = Encode(p)
             /\ trace' = trace \o <<[op |-> "encode", tx |-> p],
                                    [op |-> "getFeeEstimateXrp",
                                     blob |-> Encode(p)]>>
    /\ pc' = "feeQuery"
    /\ UNCHANGED <<buildVars, pureVars, fee, faults, secret, hook, wallet, tx, copyTx, tries, responses,
                   result, error>>

\* client.autofill rejects: getTransactionFee and setHook reject with it
AutofillRejects ==
    /\ pc = "autofill"
    /\ pc' = "rejected"
    /\ error' = [kind |-> "autofill", tries |-> 0]
    /\ faults' = faults \cup {"autofill"}
    /\ UNCHANGED <<buildVars, pureVars, fee, secret, hook, wallet, tx, copyTx, preparedTx, tx_blob,
                   tries, trace, responses, result>>

\* client.autofill resolves but xrpl.encode throws
EncodeThrows ==
    /\ pc = "autofill"
    /\ \E seq \in 1..MaxSequence :
         LET p == Autofill(copyTx, seq)
         IN  /\ preparedTx' = p
             /\ trace' = Append(trace, [op |-> "encode", tx |-> p])
    /\ pc' = "rejected"
    /\ error' = [kind |-> "encode", tries |-> 0]
    /\ faults' = faults \cup {"encode"}
    /\ UNCHANGED <<buildVars, pureVars, fee, secret, hook, wallet, tx, copyTx, tx_blob, tries,
                   responses, result>>

\* the fee is obtained but never assigned to tx.Fee
FeeEstimateResolvesNoAssign ==
    /\ pc = "feeQuery"
    /\ \E f \in Fees :
         /\ fee' = f
         /\ tx' = tx
         /\ tries' = 0
         /\ LoopHead(0, tx, trace)
    /\ UNCHANGED <<buildVars, pureVars, faults, secret, hook, wallet, copyTx, preparedTx, tx_blob,
                   responses, result>>

\* getFeeEstimateXrp resolves: tx.Fee = fee, then submitAndWaitWithRetries
\* runs up to its first await
FeeEstimateResolves ==
    /\ pc = "feeQuery"
    /\ \E f \in Fees :
         LET t == SetField(tx, "Fee", f)
         IN  /\ fee' = f
             /\ tx' = t
             /\ tries' = 0
             /\ LoopHead(0, t, trace)
    /\ UNCHANGED <<buildVars, pureVars, faults, secret, hook, wallet, copyTx, preparedTx, tx_blob,
                   responses, result>>

\* the rejection of the fee query is swallowed and the submission goes on
FeeEstimateRejectsSwallowed ==
    /\ pc = "feeQuery"
    /\ faults' = faults \cup {"getFeeEstimateXrp"}
    /\ tries' = 0
    /\ LoopHead(0, tx, trace)
    /\ UNCHANGED <<buildVars, pureVars, fee, secret, hook, wallet, tx, copyTx, preparedTx, tx_blob,
                   responses, result>>

\* getFeeEstimateXrp rejects
FeeEstimateRejects ==
    /\ pc = "feeQuery"
    /\ pc' = "rejected"
    /\ error' = [kind |-> "getFeeEstimateXrp", tries |-> 0]
    /\ faults' = faults \cup {"getFeeEstimateXrp"}
    /\ UNCHANGED <<buildVars, pureVars, fee, secret, hook, wallet, tx, copyTx, preparedTx, tx_blob,
                   tries, trace, responses, result>>

\* ------------------------------------------------------------------------
\* submitAndWaitWithRetries
\* ------------------------------------------------------------------------
\* the result of a successful attempt is not returned: the loop goes on
SubmitResolvesNoReturn ==
    /\ pc = "submit"
    /\ \E r \in Results :
         /\ responses' = Append(responses, r)
         /\ result' = r
    /\ trace' = Append(trace, [op |-> "sleep", ms |-> BackoffMs])
    /\ pc' = "sleep"
    /\ UNCHANGED <<buildVars, pureVars, fee, faults, secret, hook, wallet, tx, copyTx, preparedTx,
                   tx_blob, tries, error>>

\* client.submitAndWait resolves: return result, setHook returns it
SubmitResolves ==
    /\ pc = "submit"
    /\ \E r \in Results :
         /\ responses' = Append(responses, r)
         /\ result' = r
    /\ pc' = "resolved"
    /\ UNCHANGED <<buildVars, pureVars, fee, faults, secret, hook, wallet, tx, copyTx, preparedTx, tx_blob,
                   tries, trace, error>>

\* client.submitAndWait rejects: console.error, then the setTimeout starts
SubmitRejects ==
    /\ pc = "submit"
    /\ responses' = Append(responses, NoResult)
    /\ trace' = Append(trace, [op |-> "sleep", ms |-> BackoffMs])
    /\ pc' = "sleep"
    /\ UNCHANGED <<buildVars, pureVars, fee, faults, secret, hook, wallet, tx, copyTx, preparedTx, tx_blob,
                   tries, result, error>>

\* the fee is estimated anew before the next attempt
BackoffElapsedReestimates ==
    /\ pc = "sleep"
    /\ tries' = tries + 1
    /\ \E f \in Fees :
         /\ fee' = f
         /\ tx' = SetField(tx, "Fee", f)
         /\ LoopHead(tries + 1, SetField(tx, "Fee", f), trace)
    /\ UNCHANGED <<buildVars, pureVars, faults, secret, hook, wallet, copyTx,
                   preparedTx, tx_blob, responses, result>>

\* the timer fires: tries++, continue
BackoffElapsed ==
    /\ pc = "sleep"
    /\ tries' = tries + 1
    /\ LoopHead(tries + 1, tx, trace)
    /\ UNCHANGED <<buildVars, pureVars, fee, faults, secret, hook, wallet, tx, copyTx, preparedTx, tx_blob,
                   responses, result>>

\* transactions a caller may hand to getTransactionFee directly
TxInputs ==
    {t \in UNION {[F -> {"SetHook", "rAccountA", "rAccountB", "0", "5", "",
                         "ABCD"}] :
                    F \in {{"TransactionType", "Account"} \cup X :
                           X \in SUBSET {"Fee", "SigningPubKey"}}} :
        /\ t.TransactionType = "SetHook"
        /\ t.Account \in {"rAccountA", "rAccountB"}
        /\ Has(t, "Fee") => t.Fee \in {"0", "5"}
        /\ Has(t, "SigningPubKey") => t.SigningPubKey \in {"", "ABCD"}}

\* one getTransactionFee call on a transaction of the caller
FeeInit ==
    /\ pc = "init"
    /\ secret = "sSecretA"
    /\ hook = NoHook
    /\ wallet = [address |-> "none", seed |-> "none"]
    /\ \E t \in TxInputs, h \in HookInputs :
         tx = SetField(t, "Hooks", <<[Hook |-> h]>>)
    /\ copyTx = NoTx
    /\ preparedTx = NoTx
    /\ tx_blob = <<>>
    /\ fee = "none"
    /\ faults = {}
    /\ tries = 0
    /\ trace = <<>>
    /\ responses = <<>>
    /\ result = NoResult
    /\ error = NoError

\* copyTx is the caller's object itself, not a clone of it
GetTransactionFeeCallNoClone ==
    /\ pc = "init"
    /\ tx' = DraftOf(tx)
    /\ copyTx' = DraftOf(tx)
    /\ trace' = Append(trace, [op |-> "autofill", tx |-> DraftOf(tx)])
    /\ pc' = "autofill"
    /\ UNCHANGED <<buildVars, pureVars, fee, faults, secret, hook, wallet,
                   preparedTx, tx_blob, tries, responses, result, error>>

\* getTransactionFee is called: clone, Fee, SigningPubKey, then autofill
GetTransactionFeeCall ==
    /\ pc = "init"
    /\ copyTx' = DraftOf(tx)
    /\ trace' = Append(trace, [op |-> "autofill", tx |-> DraftOf(tx)])
    /\ pc' = "autofill"
    /\ UNCHANGED <<buildVars, pureVars, fee, faults, secret, hook, wallet, tx,
                   preparedTx, tx_blob, tries, responses, result, error>>

\* getFeeEstimateXrp resolves: getTransactionFee returns the fee
FeeEstimateReturns ==
    /\ pc = "feeQuery"
    /\ \E f \in Fees : fee' = f
    /\ pc' = "resolved"
    /\ UNCHANGED <<buildVars, pureVars, faults, secret, hook, wallet, tx,
                   copyTx, preparedTx, tx_blob, tries, trace, responses,
                   result, error>>

FeeNext ==
    \/ GetTransactionFeeCall
    \/ AutofillResolves
    \/ AutofillRejects
    \/ EncodeThrows
    \/ FeeEstimateReturns
    \/ FeeEstimateRejects

DeployNext ==
    \/ SetHookCall
    \/ AutofillResolves
    \/ AutofillRejects
    \/ EncodeThrows
    \/ FeeEstimateResolves
    \/ FeeEstimateRejects
    \/ SubmitResolves
    \/ SubmitRejects
    \/ BackoffElapsed

\* ------------------------------------------------------------------------
\* buildHook: the working directory
\* ------------------------------------------------------------------------
\* the buildHook runs of the model, all for the same hook name and directory
Builds == {1, 2}

HookName == <<"foo">>

\* path.join(wasmDir, `${hookName}.wasm`)
wasmInFile == "foo.wasm"

\* path.join(wasmDir, `${hookName}-flattened.wasm`)
wasmOutFlattened == "foo-flattened.wasm"

\* path.join(wasmDir, `${hookName}-cleaned.wasm`)
wasmOutCleaned == "foo-cleaned.wasm"

Files ==
    {wasmInFile, wasmOutFlattened, wasmOutCleaned,
     "foo.wat", "foo-cleaned.wat", "foo-flattened.wat"}

\* a file holds what a compilation (origin) produced, after some tool passes
Absent == [origin |-> -1, passes |-> <<>>]

Pass(content, tool) ==
    [origin |-> content.origin, passes |-> Append(content.passes, tool)]

\* bytes the compiler emits for the sources of a run (0: an earlier run)
RawBytes(origin) ==
    CASE origin = 0 -> <<0, 97, 115, 109, 1>>
      [] origin = 1 -> <<0, 10, 171, 255, 16>>
      [] OTHER -> <<254, 9, 160, 15>>

\* every pass of a tool makes the artifact one byte shorter
Bytes(content) ==
    SubSeq(RawBytes(content.origin), 1,
           Len(RawBytes(content.origin)) - Len(content.passes))

FreshDir == [f \in Files |-> Absent]

\* the directory as an earlier complete build left it
StaleDir ==
    [f \in Files |->
        CASE f = wasmInFile -> [origin |-> 0, passes |-> <<>>]
          [] f = wasmOutFlattened -> [origin |-> 0, passes |-> <<"wasm-opt">>]
          [] f = wasmOutCleaned ->
               [origin |-> 0, passes |-> <<"wasm-opt", "hook-cleaner">>]
          [] f = "foo.wat" -> [origin |-> 0, passes |-> <<"wasm2wat">>]
          [] f = "foo-flattened.wat" ->
               [origin |-> 0, passes |-> <<"wasm-opt", "wasm2wat">>]
          [] OTHER ->
               [origin |-> 0,
                passes |-> <<"wasm-opt", "hook-cleaner", "wasm2wat">>]]

\* ------------------------------------------------------------------------
\* buildHook: the external tools
\* ------------------------------------------------------------------------
\* the three wasm2wat commands of the Promise.all, in the order of the array
Convs == <<"wasm2wat-raw", "wasm2wat-cleaned", "wasm2wat-flattened">>

ConvSet == {Convs[i] : i \in 1..Len(Convs)}

Tools == {"cargo", "wasm-opt", "hook-cleaner", "guard_checker", "readFile"}
             \cup ConvSet

ConvInput(c) ==
    CASE c = "wasm2wat-raw" -> wasmInFile
      [] c = "wasm2wat-cleaned" -> wasmOutCleaned
      [] OTHER -> wasmOutFlattened

ConvOutput(c) ==
    CASE c = "wasm2wat-raw" -> "foo.wat"
      [] c = "wasm2wat-cleaned" -> "foo-cleaned.wat"
      [] OTHER -> "foo-flattened.wat"

\* a command that exited: output.success or not
Exit(success) == IF success THEN "ok" ELSE "failed"

Exited == {"ok", "failed"}

\* handleOutput: stdout of a success to console.log, else stderr to console.error
handleOutput(tool, success) ==
    [tool |-> tool, stream |-> IF success THEN "stdout" ELSE "stderr"]

\* a command's output can be a success only if its input file exists
CanSucceed(success, input) == success => fs[input] # Absent

BuildFields ==
    /\ status = [b \in Builds |-> [t \in Tools |-> "idle"]]
    /\ invoked = [b \in Builds |-> [t \in Tools |-> 0]]
    /\ logged = [b \in Builds |-> <<>>]
    /\ convOrder = [b \in Builds |-> <<>>]
    /\ bhook = [b \in Builds |-> NoHook]
    /\ wasm = [b \in Builds |-> <<>>]
    /\ berror = [b \in Builds |-> "none"]

\* one buildHook call in a fresh or in a used working directory
BuildInit ==
    /\ bpc = [b \in Builds |-> IF b = 1 THEN "start" ELSE "idle"]
    /\ BuildFields
    /\ fs \in {FreshDir, StaleDir}

\* buildHook is called for the same hook name in the same working directory
\* once, or twice with the second call made while the first one runs
TwoBuildsInit ==
    /\ bpc \in {[b \in Builds |-> IF b = 1 THEN "start" ELSE "idle"],
                [b \in Builds |-> "start"]}
    /\ BuildFields
    /\ fs = FreshDir

\* no buildHook call
BuildIdle ==
    /\ bpc = [b \in Builds |-> "idle"]
    /\ BuildFields
    /\ fs = FreshDir

\* the tool is started: new Deno.Command(...).output()
Start(st, b, tool) == [st EXCEPT ![b][tool] = "running"]

Count(inv, b, tool) == [inv EXCEPT ![b][tool] = @ + 1]

\* the first output to resolve is taken for all of them
PromiseAnyResolved(st) == \E c \in ConvSet : st[c] \in Exited

\* Promise.all of the three outputs has resolved
PromiseAllResolved(st) == \A c \in ConvSet : st[c] \in Exited

\* the output of cargo is not awaited: wasm-opt is started at once
BuildHookCallNoAwait(b) ==
    /\ bpc[b] = "start"
    /\ status' = Start(Start(status, b, "cargo"), b, "wasm-opt")
    /\ invoked' = Count(Count(invoked, b, "cargo"), b, "wasm-opt")
    /\ bhook' = [bhook EXCEPT ![b] = PayloadOf(HookName)]
    /\ bpc' = [bpc EXCEPT ![b] = "optimize"]
    /\ UNCHANGED <<deployVars, pureVars, logged, convOrder, wasm, berror, fs>>

\* buildHook is called: cargo +nightly build --release is started
BuildHookCall(b) ==
    /\ bpc[b] = "start"
    /\ status' = Start(status, b, "cargo")
    /\ invoked' = Count(invoked, b, "cargo")
    /\ bpc' = [bpc EXCEPT ![b] = "compile"]
    /\ UNCHANGED <<deployVars, pureVars, logged, convOrder, bhook, wasm, berror, fs>>

\* cargo exits: handleOutput, createHookPayload, then wasm-opt is started
CargoExits(b) ==
    /\ bpc[b] = "compile"
    /\ \E success \in BOOLEAN :
         /\ fs' = IF success
                  THEN [fs EXCEPT ![wasmInFile] = [origin |-> b, passes |-> <<>>]]
                  ELSE fs
         /\ logged' = [logged EXCEPT
                         ![b] = Append(@, handleOutput("cargo", success))]
         /\ status' = Start([status EXCEPT ![b]["cargo"] = Exit(success)],
                            b, "wasm-opt")
    /\ bhook' = [bhook EXCEPT ![b] = PayloadOf(HookName)]
    /\ invoked' = Count(invoked, b, "wasm-opt")
    /\ bpc' = [bpc EXCEPT ![b] = "optimize"]
    /\ UNCHANGED <<deployVars, pureVars, convOrder, wasm, berror>>

\* a command cannot be run: output() rejects and so does buildHook
SpawnFails(b, at, tool) ==
    /\ bpc[b] = at
    /\ status' = [status EXCEPT ![b][tool] = "threw"]
    /\ bpc' = [bpc EXCEPT ![b] = "rejected"]
    /\ berror' = [berror EXCEPT ![b] = tool]
    /\ UNCHANGED <<deployVars, pureVars, invoked, logged, convOrder, bhook, wasm, fs>>

CargoSpawnFails(b) == SpawnFails(b, "compile", "cargo")

\* a failure of wasm-opt is raised instead of being logged only
WasmOptExitsFailFast(b) ==
    /\ bpc[b] = "optimize"
    /\ \E success \in BOOLEAN :
         /\ CanSucceed(success, wasmInFile)
         /\ fs' = IF success
                  THEN [fs EXCEPT
                          ![wasmOutFlattened] = Pass(fs[wasmInFile], "wasm-opt")]
                  ELSE fs
         /\ logged' = [logged EXCEPT
                         ![b] = Append(@, handleOutput("wasm-opt", success))]
         /\ IF success
            THEN /\ status' = Start([status EXCEPT ![b]["wasm-opt"] = "ok"],
                                    b, "hook-cleaner")
                 /\ invoked' = Count(invoked, b, "hook-cleaner")
                 /\ bpc' = [bpc EXCEPT ![b] = "clean"]
                 /\ berror' = berror
            ELSE /\ status' = [status EXCEPT ![b]["wasm-opt"] = "failed"]
                 /\ invoked' = invoked
                 /\ bpc' = [bpc EXCEPT ![b] = "rejected"]
                 /\ berror' = [berror EXCEPT ![b] = "wasm-opt"]
    /\ UNCHANGED <<deployVars, pureVars, convOrder, bhook, wasm>>

\* wasm-opt exits: handleOutput, then hook-cleaner is started
WasmOptExits(b) ==
    /\ bpc[b] = "optimize"
    /\ \E success \in BOOLEAN :
         /\ CanSucceed(success, wasmInFile)
         /\ fs' = IF success
                  THEN [fs EXCEPT
                          ![wasmOutFlattened] = Pass(fs[wasmInFile], "wasm-opt")]
                  ELSE fs
         /\ logged' = [logged EXCEPT
                         ![b] = Append(@, handleOutput("wasm-opt", success))]
         /\ status' = Start([status EXCEPT ![b]["wasm-opt"] = Exit(success)],
                            b, "hook-cleaner")
    /\ invoked' = Count(invoked, b, "hook-cleaner")
    /\ bpc' = [bpc EXCEPT ![b] = "clean"]
    /\ UNCHANGED <<deployVars, pureVars, convOrder, bhook, wasm, berror>>

WasmOptSpawnFails(b) == SpawnFails(b, "optimize", "wasm-opt")

\* hook-cleaner is given the compiled artifact instead of the flattened one
HookCleanerExitsWrongInput(b) ==
    /\ bpc[b] = "clean"
    /\ \E success \in BOOLEAN :
         /\ CanSucceed(success, wasmInFile)
         /\ fs' = IF success
                  THEN [fs EXCEPT
                          ![wasmOutCleaned] =
                              Pass(fs[wasmInFile], "hook-cleaner")]
                  ELSE fs
         /\ logged' = [logged EXCEPT
                         ![b] = Append(@, [tool |-> "hook-cleaner",
                                           stream |-> "json"])]
         /\ status' = [status EXCEPT
                         ![b] = [t \in Tools |->
                                   IF t = "hook-cleaner" THEN Exit(success)
                                   ELSE IF t \in ConvSet THEN "running"
                                   ELSE @[t]]]
    /\ invoked' = [invoked EXCEPT
                     ![b] = [t \in Tools |->
                               IF t \in ConvSet THEN @[t] + 1 ELSE @[t]]]
    /\ bpc' = [bpc EXCEPT ![b] = "convert"]
    /\ UNCHANGED <<deployVars, pureVars, convOrder, bhook, wasm, berror>>

\* hook-cleaner exits: its output is printed, the three wasm2wat are started
HookCleanerExits(b) ==
    /\ bpc[b] = "clean"
    /\ \E success \in BOOLEAN :
         /\ CanSucceed(success, wasmOutFlattened)
         /\ fs' = IF success
                  THEN [fs EXCEPT
                          ![wasmOutCleaned] =
                              Pass(fs[wasmOutFlattened], "hook-cleaner")]
                  ELSE fs
         /\ logged' = [logged EXCEPT
                         ![b] = Append(@, [tool |-> "hook-cleaner",
                                           stream |-> "json"])]
         /\ status' = [status EXCEPT
                         ![b] = [t \in Tools |->
                                   IF t = "hook-cleaner" THEN Exit(success)
                                   ELSE IF t \in ConvSet THEN "running"
                                   ELSE @[t]]]
    /\ invoked' = [invoked EXCEPT
                     ![b] = [t \in Tools |->
                               IF t \in ConvSet THEN @[t] + 1 ELSE @[t]]]
    /\ bpc' = [bpc EXCEPT ![b] = "convert"]
    /\ UNCHANGED <<deployVars, pureVars, convOrder, bhook, wasm, berror>>

HookCleanerSpawnFails(b) == SpawnFails(b, "clean", "hook-cleaner")

\* one wasm2wat exits; when it is the last one, Promise.all resolves and
\* guard_checker is started
Wasm2WatExits(b, c) ==
    /\ status[b][c] = "running"
    /\ \E success \in BOOLEAN :
         /\ CanSucceed(success, ConvInput(c))
         /\ fs' = IF success
                  THEN [fs EXCEPT
                          ![ConvOutput(c)] = Pass(fs[ConvInput(c)], "wasm2wat")]
                  ELSE fs
         /\ LET st == [status EXCEPT ![b][c] = Exit(success)]
                go == bpc[b] = "convert" /\ PromiseAllResolved(st[b])
            IN  /\ status' = IF go THEN Start(st, b, "guard_checker") ELSE st
                /\ invoked' = IF go THEN Count(invoked, b, "guard_checker")
                              ELSE invoked
                /\ bpc' = IF go THEN [bpc EXCEPT ![b] = "validate"] ELSE bpc
    /\ convOrder' = [convOrder EXCEPT ![b] = Append(@, c)]
    /\ UNCHANGED <<deployVars, pureVars, logged, bhook, wasm, berror>>

\* one wasm2wat cannot be run: Promise.all rejects at once, and so does
\* buildHook if it has not yet
Wasm2WatSpawnFails(b, c) ==
    /\ status[b][c] = "running"
    /\ status' = [status EXCEPT ![b][c] = "threw"]
    /\ convOrder' = [convOrder EXCEPT ![b] = Append(@, c)]
    /\ IF bpc[b] = "convert"
       THEN /\ bpc' = [bpc EXCEPT ![b] = "rejected"]
            /\ berror' = [berror EXCEPT ![b] = c]
       ELSE UNCHANGED <<bpc, berror>>
    /\ UNCHANGED <<deployVars, pureVars, invoked, logged, bhook, wasm, fs>>

\* guard_checker exits: handleOutput, then Deno.readFile is called
GuardCheckerExits(b) ==
    /\ bpc[b] = "validate"
    /\ \E success \in BOOLEAN :
         /\ CanSucceed(success, wasmOutCleaned)
         /\ logged' = [logged EXCEPT
                         ![b] = Append(@, handleOutput("guard_checker", success))]
         /\ status' = Start([status EXCEPT ![b]["guard_checker"] = Exit(success)],
                            b, "readFile")
    /\ invoked' = Count(invoked, b, "readFile")
    /\ bpc' = [bpc EXCEPT ![b] = "finalize"]
    /\ UNCHANGED <<deployVars, pureVars, convOrder, bhook, wasm, berror, fs>>

GuardCheckerSpawnFails(b) == SpawnFails(b, "validate", "guard_checker")

\* the hex string is attached as Hex.uint8ArrayToHexString returns it
ReadFileResolvesLowerCase(b) ==
    /\ bpc[b] = "finalize"
    /\ fs[wasmOutCleaned] # Absent
    /\ LET bytes == Bytes(fs[wasmOutCleaned])
       IN  /\ wasm' = [wasm EXCEPT ![b] = bytes]
           /\ bhook' = [bhook EXCEPT
                          ![b] = SetField(@, "CreateCode",
                                          uint8ArrayToHexString(bytes))]
    /\ status' = [status EXCEPT ![b]["readFile"] = "ok"]
    /\ bpc' = [bpc EXCEPT ![b] = "resolved"]
    /\ UNCHANGED <<deployVars, pureVars, invoked, logged, convOrder, berror, fs>>

\* Deno.readFile resolves: CreateCode is the upper-case hex of the bytes
ReadFileResolves(b) ==
    /\ bpc[b] = "finalize"
    /\ fs[wasmOutCleaned] # Absent
    /\ LET bytes == Bytes(fs[wasmOutCleaned])
       IN  /\ wasm' = [wasm EXCEPT ![b] = bytes]
           /\ bhook' = [bhook EXCEPT
                          ![b] = SetField(@, "CreateCode",
                                   toUpperCase(uint8ArrayToHexString(bytes)))]
    /\ status' = [status EXCEPT ![b]["readFile"] = "ok"]
    /\ bpc' = [bpc EXCEPT ![b] = "resolved"]
    /\ UNCHANGED <<deployVars, pureVars, invoked, logged, convOrder, berror, fs>>

\* Deno.readFile rejects: there is no cleaned artifact
ReadFileRejects(b) ==
    /\ fs[wasmOutCleaned] = Absent
    /\ SpawnFails(b, "finalize", "readFile")

BuildNext ==
    \E b \in Builds :
        \/ BuildHookCall(b)
        \/ CargoExits(b)
        \/ CargoSpawnFails(b)
        \/ WasmOptExits(b)
        \/ WasmOptSpawnFails(b)
        \/ HookCleanerExits(b)
        \/ HookCleanerSpawnFails(b)
        \/ \E c \in ConvSet : Wasm2WatExits(b, c)
        \/ \E c \in ConvSet : Wasm2WatSpawnFails(b, c)
        \/ GuardCheckerExits(b)
        \/ GuardCheckerSpawnFails(b)
        \/ ReadFileResolves(b)
        \/ ReadFileRejects(b)

\* commands that exit with success
CargoSucceeds(b) == CargoExits(b) /\ status'[b]["cargo"] = "ok"

WasmOptSucceeds(b) == WasmOptExits(b) /\ status'[b]["wasm-opt"] = "ok"

HookCleanerSucceeds(b) ==
    HookCleanerExits(b) /\ status'[b]["hook-cleaner"] = "ok"

Wasm2WatSucceeds(b, c) == Wasm2WatExits(b, c) /\ status'[b][c] = "ok"

GuardCheckerSucceeds(b) ==
    GuardCheckerExits(b) /\ status'[b]["guard_checker"] = "ok"

\* buildHook calls in which every command exits with success
TwoBuildsNext ==
    \E b \in Builds :
        \/ BuildHookCall(b)
        \/ CargoSucceeds(b)
        \/ WasmOptSucceeds(b)
        \/ HookCleanerSucceeds(b)
        \/ \E c \in ConvSet : Wasm2WatSucceeds(b, c)
        \/ GuardCheckerSucceeds(b)
        \/ ReadFileResolves(b)

vars == <<deployVars, buildVars, pureVars>>

Init == DeployInit /\ BuildIdle /\ PureIdle

\* one setHook call
Spec == Init /\ [][DeployNext]_vars

InitBuild == DeployIdle /\ BuildInit /\ PureIdle

InitFee == FeeInit /\ BuildIdle /\ PureIdle

\* one getTransactionFee call
SpecFee == InitFee /\ [][FeeNext]_vars

InitTwoBuilds == DeployIdle /\ TwoBuildsInit /\ PureIdle

\* two overlapping buildHook calls in one working directory
SpecTwoBuilds == InitTwoBuilds /\ [][TwoBuildsNext]_vars

InitPayload == DeployIdle /\ BuildIdle /\ PayloadInit

PayloadNext == CreateHookPayloadCall

\* one createHookPayload call
SpecPayload == InitPayload /\ [][PayloadNext]_vars

InitParams == DeployIdle /\ BuildIdle /\ ParamsInit

ParamsNext ==
    \/ HexHookParametersCall
    \/ HexHookParametersAgain

\* hexHookParameters applied once, then to its own result
SpecParams == InitParams /\ [][ParamsNext]_vars

\* one buildHook call
SpecBuild == InitBuild /\ [][BuildNext]_vars

\* ------------------------------------------------------------------------
\* Properties of the deployment (setHook)
\* ------------------------------------------------------------------------
Submits == IdxOf(trace, "submitAndWait")

Sleeps == IdxOf(trace, "sleep")

NumSubmits == Cardinality(Submits)

NumSleeps == Cardinality(Sleeps)

Finished == pc \in {"resolved", "rejected"}

AllFailed == \A n \in 1..Len(responses) : responses[n] = NoResult

\* C1: when every submitAndWait call fails, the terminal error is raised
\* only after exactly 3 calls (never fewer, never more), and between two
\* consecutive calls there is exactly one sleep, of 1000 ms.
C1_TerminalAfterExactlyThree ==
    /\ NumSubmits <= 3
    /\ error.kind = "terminal" =>
         /\ NumSubmits = 3
         /\ Len(responses) = 3
         /\ AllFailed
    /\ (AllFailed /\ Len(responses) < 3) => error.kind # "terminal"
    /\ \A i, j \in Submits :
         (i < j /\ ~ \E m \in Submits : i < m /\ m < j) =>
           /\ j = i + 2
           /\ trace[i + 1].op = "sleep"
           /\ trace[i + 1].ms = 1000

C1_Witness ==
    /\ pc = "rejected"
    /\ error.kind = "terminal"
    /\ AllFailed
    /\ NumSubmits = 3

\* C2: never more than 3 submitAndWait calls; as soon as attempt n succeeds
\* the submitter returns that attempt's result, with no further call and no
\* further sleep.
C2_StopsAtFirstSuccess ==
    /\ NumSubmits <= 3
    /\ Len(responses) <= NumSubmits
    /\ \A n \in 1..Len(responses) :
         responses[n] # NoResult =>
           /\ n \in 1..3
           /\ n = Len(responses)
           /\ pc = "resolved"
           /\ result = responses[n]
           /\ NumSubmits = n
           /\ Last(trace).op = "submitAndWait"
           /\ NumSleeps = n - 1

C2_Witness ==
    /\ pc = "resolved"
    /\ Len(responses) = 3
    /\ responses[1] = NoResult
    /\ responses[2] = NoResult
    /\ result = responses[3]
    /\ result.id = 2

\* C3 (as claimed): a backoff sleep happens only between attempts: every
\* sleep is followed by another attempt, and a finished run has slept once
\* less than it has attempted.
C3_SleepOnlyBetweenAttempts ==
    (Finished /\ NumSubmits > 0) =>
        /\ NumSleeps = NumSubmits - 1
        /\ \A k \in Sleeps : \E i \in Submits : i > k

\* C4: the terminal error names the number of submitAndWait calls made, 3,
\* and is raised only when every attempt failed.
C4_TerminalErrorNamesAttempts ==
    error.kind = "terminal" =>
        /\ error.tries = NumSubmits
        /\ error.tries = 3
        /\ Len(responses) = NumSubmits
        /\ AllFailed
        /\ result = NoResult

C4_Witness ==
    /\ error = [kind |-> "terminal", tries |-> 3]
    /\ Len(responses) = 3
    /\ Last(trace).op = "sleep"

EstimationOps == {"autofill", "encode", "getFeeEstimateXrp"}

\* C5: a failure of any step of the fee estimation rejects setHook at once:
\* no estimation step is invoked twice, no later step is invoked, there is
\* no submitAndWait call and no sleep.
C5_EstimationFailurePropagates ==
    /\ \A o \in EstimationOps : Cardinality(IdxOf(trace, o)) <= 1
    /\ faults # {} =>
         /\ pc = "rejected"
         /\ error.kind \in faults
         /\ Cardinality(faults) = 1
         /\ NumSubmits = 0
         /\ NumSleeps = 0
         /\ result = NoResult
         /\ Last(trace).op = error.kind

C5_Witness ==
    /\ faults = {"getFeeEstimateXrp"}
    /\ pc = "rejected"
    /\ Len(trace) = 3

ExpectedAccount == IF secret = "sSecretA" THEN "rAccountA" ELSE "rAccountB"

\* C6: the fee estimation has completed before the first submitAndWait;
\* every submitted transaction carries the estimated Fee, exactly the given
\* HookPayload and the account of the secret; the options are failHard and
\* autofill; setHook returns the submitter's result or its terminal error.
C6_EstimateThenSubmit ==
    /\ \A i \in Submits :
         /\ fee \in Fees
         /\ \A o \in EstimationOps : \E j \in IdxOf(trace, o) : j < i
         /\ trace[i].tx.TransactionType = "SetHook"
         /\ Has(trace[i].tx, "Fee")
         /\ trace[i].tx.Fee = fee
         /\ trace[i].tx.Hooks = <<[Hook |-> hook]>>
         /\ trace[i].tx.Account = ExpectedAccount
         /\ trace[i].opts.wallet.address = ExpectedAccount
         /\ trace[i].opts.wallet.seed = secret
         /\ trace[i].opts.failHard = TRUE
         /\ trace[i].opts.autofill = TRUE
    /\ pc = "resolved" => (result \in Results /\ result = Last(responses))
    /\ (pc = "rejected" /\ NumSubmits > 0) => error.kind = "terminal"

C6_Witness ==
    /\ pc = "resolved"
    /\ NumSubmits = 2
    /\ fee = "12"
    /\ trace[Len(trace)].tx.Fee = "12"

\* ------------------------------------------------------------------------
\* Properties of the build (buildHook)
\* ------------------------------------------------------------------------
\* compile, optimize/flatten, clean, validate, finalize
MainStages == <<"cargo", "wasm-opt", "hook-cleaner", "guard_checker", "readFile">>

\* the external build tools among them
BuildTools == {"cargo", "wasm-opt", "hook-cleaner", "guard_checker"}

\* C7: compile, optimize, clean, validate and finalize are strictly
\* sequential: a stage is started only after the previous one has completed,
\* and CreateCode is read only after the validator has finished.
C7_StagesSequential ==
    \A b \in Builds :
        /\ \A k \in 1..(Len(MainStages) - 1) :
             status[b][MainStages[k + 1]] # "idle" =>
                 status[b][MainStages[k]] \in Exited
        /\ Cardinality({k \in 1..Len(MainStages) :
                           status[b][MainStages[k]] = "running"}) <= 1
        /\ Has(bhook[b], "CreateCode") => status[b]["guard_checker"] \in Exited

C7_Witness ==
    /\ bpc[1] = "resolved"
    /\ \A k \in 1..Len(MainStages) : status[1][MainStages[k]] = "ok"
    /\ Has(bhook[1], "CreateCode")

\* C8: the three conversions are started only after the cleaner has
\* completed, all three together (so that all are in flight at once), they
\* complete in any order, and the validator is not started before all three
\* have completed.
C8_ConversionsJointlyAwaited ==
    \A b \in Builds :
        /\ \A c \in ConvSet :
             status[b][c] # "idle" =>
                 /\ status[b]["hook-cleaner"] \in Exited
                 /\ \A d \in ConvSet : status[b][d] # "idle"
        /\ (bpc[b] = "convert" /\ convOrder[b] = <<>>) =>
               \A c \in ConvSet : status[b][c] = "running"
        /\ status[b]["guard_checker"] # "idle" =>
               \A c \in ConvSet : status[b][c] \in Exited

C8_Witness ==
    /\ status[1]["guard_checker"] = "running"
    /\ convOrder[1] = <<"wasm2wat-flattened", "wasm2wat-raw", "wasm2wat-cleaned">>

\* the payload of a build whose conversions all succeed
ExpectedPayload(b) ==
    SetField(PayloadOf(HookName), "CreateCode",
             toUpperCase(uint8ArrayToHexString(wasm[b])))

\* C9 (as claimed): whatever conversions fail, by a non-zero exit or by an
\* error running the converter, buildHook is not aborted by them, runs the
\* validator once the three are over, and returns the same payload.
C9_ConversionFailuresNonFatal ==
    \A b \in Builds :
        (\E c \in ConvSet : status[b][c] \in {"failed", "threw"}) =>
            /\ ~(bpc[b] = "rejected" /\ berror[b] \in ConvSet)
            /\ (\A c \in ConvSet : status[b][c] # "running") =>
                   status[b]["guard_checker"] # "idle"
            /\ bpc[b] = "resolved" => bhook[b] = ExpectedPayload(b)

\* the stages that follow a build tool at once when it exits
Following(t) ==
    CASE t = "cargo" -> {"wasm-opt"}
      [] t = "wasm-opt" -> {"hook-cleaner"}
      [] t = "hook-cleaner" -> ConvSet
      [] OTHER -> {"readFile"}

LoggedFailure(b, t) ==
    \E i \in 1..Len(logged[b]) :
        /\ logged[b][i].tool = t
        /\ logged[b][i].stream \in {"stderr", "json"}

C11_CodeOnlyAfterSuccess ==
    \A b \in Builds :
        (bpc[b] = "resolved" /\ Has(bhook[b], "CreateCode")) =>
            \A t \in BuildTools : status[b][t] = "ok"

\* ------------------------------------------------------------------------
\* Properties of getTransactionFee
\* ------------------------------------------------------------------------
\* the wire encoding carries field f with value v
BlobHas(blob, f, v) ==
    /\ \E k \in 1..Len(blob) : blob[k][1] = f
    /\ \A k \in 1..Len(blob) : blob[k][1] = f => blob[k][2] = v

\* C12: whatever Fee and SigningPubKey the caller's transaction carries, the
\* draft handed to autofill has Fee "0" and SigningPubKey "", and so has the
\* wire-encoded draft sent to the fee-estimation query.
C12_DraftIsUnpricedUnsigned ==
    /\ \A i \in IdxOf(trace, "autofill") \cup IdxOf(trace, "encode") :
         /\ Has(trace[i].tx, "Fee") /\ trace[i].tx.Fee = "0"
         /\ Has(trace[i].tx, "SigningPubKey") /\ trace[i].tx.SigningPubKey = ""
    /\ \A i \in IdxOf(trace, "getFeeEstimateXrp") :
         /\ BlobHas(trace[i].blob, "Fee", "0")
         /\ BlobHas(trace[i].blob, "SigningPubKey", "")
    /\ pc # "init" => (copyTx.Fee = "0" /\ copyTx.SigningPubKey = "")

C12_Witness ==
    /\ pc = "resolved"
    /\ Has(tx, "Fee") /\ tx.Fee = "5"
    /\ Has(tx, "SigningPubKey") /\ tx.SigningPubKey = "ABCD"
    /\ IdxOf(trace, "getFeeEstimateXrp") # {}

\* C13: getTransactionFee never changes the caller's transaction: every
\* step of a call, successful or failing, leaves every field of it as it was.
C13_CallerTxUnchanged == [][tx' = tx]_vars

C13_Witness ==
    /\ pc \in {"resolved", "rejected"}
    /\ Has(tx, "Fee") /\ tx.Fee = "5"
    /\ ~Has(tx, "SigningPubKey")
    /\ copyTx.Fee = "0" /\ copyTx.SigningPubKey = ""
    /\ Has(preparedTx, "Sequence")

\* ------------------------------------------------------------------------
\* Properties of createHookPayload and hexHookParameters
\* ------------------------------------------------------------------------
IsNum(x) == x.tag = "number"

\* C14: HookApiVersion is present iff the version argument is a number (a
\* version of 0 gives HookApiVersion 0), while Flags is present iff the flags
\* argument is a non-zero number: with flags 0 the payload is the one built
\* with no flags argument.
C14_ZeroVersionKeptZeroFlagsDropped ==
    ppc = "returned" =>
        /\ Has(pout, "HookApiVersion") <=> IsNum(pin.version)
        /\ IsNum(pin.version) => pout.HookApiVersion = pin.version.val
        /\ Has(pout, "Flags") <=> (IsNum(pin.flags) /\ pin.flags.val # 0)
        /\ Has(pout, "Flags") => pout.Flags = pin.flags.val
        /\ (IsNum(pin.flags) /\ pin.flags.val = 0) =>
               pout = createHookPayload(pin.version, pin.namespace,
                                        JsUndefined, pin.hookOn,
                                        pin.hookParams, pin.hookGrants)

C14_Witness ==
    /\ ppc = "returned"
    /\ IsNum(pin.version) /\ pin.version.val = 0
    /\ IsNum(pin.flags) /\ pin.flags.val = 0
    /\ Has(pout, "HookApiVersion") /\ pout.HookApiVersion = 0
    /\ ~Has(pout, "Flags")

ParamName(q) == q.HookParameter.HookParameterName
ParamValue(q) == q.HookParameter.HookParameterValue

\* C15: hexHookParameters is idempotent: applied to its own result it
\* returns that result.
C15_Idempotent == ppc = "again" => pout2 = pout

C15_Witness ==
    /\ ppc = "again"
    /\ Len(pin) = MaxParams
    /\ \E i \in 1..Len(pin) : ~IsHex(ParamName(pin[i]))
    /\ \E i \in 1..Len(pin) : IsHex(ParamName(pin[i]))
    /\ pout # pin
    /\ pout2 = pout

\* what one field becomes
NormField(x) == IF IsHex(x) THEN x ELSE stringToHexString(x)

\* the result has the length of the input and its i-th element is the i-th
\* input element with name and value normalised independently
SamePositions ==
    ppc # "call" =>
        /\ Len(pout) = Len(pin)
        /\ \A i \in 1..Len(pin) :
             /\ DOMAIN pout[i] = {"HookParameter"}
             /\ ParamName(pout[i]) = NormField(ParamName(pin[i]))
             /\ ParamValue(pout[i]) = NormField(ParamValue(pin[i]))

\* C16: hexHookParameters keeps the sequence: same length, the i-th output is
\* the i-th input normalised field by field, duplicates are kept, and the
\* input sequence is not modified.
C16_SequencePreserved == []SamePositions /\ [][pin' = pin]_vars

C16_Witness ==
    /\ ppc = "returned"
    /\ Len(pin) = 2
    /\ pin[1] = pin[2]
    /\ ~IsHex(ParamName(pin[1])) /\ IsHex(ParamValue(pin[1]))
    /\ Len(pout) = 2 /\ pout[1] = pout[2]

\* ------------------------------------------------------------------------
\* Properties of the attached code
\* ------------------------------------------------------------------------
\* C17: CreateCode is the upper-case hex transcription of the bytes of the
\* cleaned artifact read in the finalize step: N bytes give 2N characters,
\* each an upper-case hex digit, and characters 2i-1 and 2i (counted from 1)
\* encode byte i.
C17_CodeIsUpperHexOfCleaned ==
    \A b \in Builds :
        bpc[b] = "resolved" =>
            /\ Has(bhook[b], "CreateCode")
            /\ wasm[b] = Bytes(fs[wasmOutCleaned])
            /\ Len(bhook[b].CreateCode) = 2 * Len(wasm[b])
            /\ \A k \in 1..Len(bhook[b].CreateCode) :
                 \E d \in 1..16 : bhook[b].CreateCode[k] = HexUpper[d]
            /\ \A i \in 1..Len(wasm[b]) :
                 /\ bhook[b].CreateCode[2 * i - 1]
                        = HexUpper[(wasm[b][i] \div 16) + 1]
                 /\ bhook[b].CreateCode[2 * i] = HexUpper[(wasm[b][i] % 16) + 1]

C17_Witness ==
    /\ bpc[1] = "resolved"
    /\ Len(wasm[1]) = 3
    /\ \E i \in 1..Len(wasm[1]) : wasm[1][i] % 16 >= 10
    /\ \E i \in 1..Len(wasm[1]) : wasm[1][i] < 16
    /\ bhook[1].CreateCode = <<"0", "0", "0", "A", "A", "B">>

\* ------------------------------------------------------------------------
\* Two builds of one hook in one working directory
\* ------------------------------------------------------------------------
Other(b) == CHOOSE o \in Builds : o # b

\* the code derived from what the compile step of run b emitted
OwnCode(b) ==
    toUpperCase(uint8ArrayToHexString(
        Bytes(Pass(Pass([origin |-> b, passes |-> <<>>], "wasm-opt"),
                   "hook-cleaner"))))

\* run b resolved with every stage a success and a code that is not derived
\* from its own compile output
Corrupted(b) ==
    /\ bpc[b] = "resolved"
    /\ \A t \in BuildTools : status[b][t] = "ok"
    /\ bhook[b].CreateCode # OwnCode(b)

\* C18: a build returns a code not derived from its own compile output only
\* if another build of the same hook ran in the same directory: a build on
\* its own always returns the code of its own compile output.
C18_CorruptedOnlyByOtherBuild ==
    \A b \in Builds : Corrupted(b) => bpc[Other(b)] # "idle"

\* two overlapping builds: the first returns the code of the second's compile
C18_Witness ==
    /\ Corrupted(1)
    /\ bhook[1].CreateCode = OwnCode(2)
    /\ \A t \in BuildTools : status[2][t] \in {"ok", "idle", "running"}

\* a build on its own returned its own code
C18_WitnessAlone ==
    /\ bpc[2] = "idle"
    /\ bpc[1] = "resolved"
    /\ bhook[1].CreateCode = OwnCode(1)

\* ------------------------------------------------------------------------
\* Properties of a whole setHook call
\* ------------------------------------------------------------------------
\* the fee is estimated at most once, and once before any submission; all
\* submissions carry one transaction and one set of options
OneEstimateSameSubmission ==
    /\ \A o \in EstimationOps : Cardinality(IdxOf(trace, o)) <= 1
    /\ Submits # {} =>
         \A o \in EstimationOps : Cardinality(IdxOf(trace, o)) = 1
    /\ \A i \in Submits, j \in Submits :
         /\ trace[i].tx = trace[j].tx
         /\ trace[i].opts = trace[j].opts
    /\ \A i \in Submits :
         /\ trace[i].tx = tx
         /\ trace[i].tx.Hooks[1].Hook = hook

\* C19: within one setHook call the fee is estimated exactly once; every
\* retry passes the same transaction (Account, HookPayload, Fee) and the same
\* options to submitAndWait as the first attempt; the HookPayload given to
\* setHook is never modified.
C19_RetriesResubmitUnchanged ==
    []OneEstimateSameSubmission /\ [][hook' = hook]_vars

C19_Witness ==
    /\ NumSubmits = 3
    /\ pc = "rejected"
    /\ Has(hook, "CreateCode")
    /\ \A i \in Submits : trace[i].tx.Fee = fee

====
